---------------------------- MODULE Spec2Model ----------------------------
(***************************************************************************)
(* A model of src/src/github_crawler.py: ProxyRotator (construction,       *)
(* remote proxy-list acquisition, get_proxy) and GitHub_Crawler.search     *)
(* (the retry loop around make_request and parse_search_results).          *)
(*                                                                         *)
(* Strings are sequences of one-character strings, so that "://" in proxy, *)
(* str.strip() and string concatenation are computed, not assumed.         *)
(***************************************************************************)
EXTENDS Integers, Sequences, FiniteSets, TLC

(***************************************************************************)
(* Bounds of the model.                                                    *)
(***************************************************************************)
\* largest value of search's retries parameter
MaxRetries == 3
\* largest value of get_proxies_retries when a rotator is built directly
MaxGetProxiesRetries == 2
\* longest caller-supplied proxy list
MaxProxies == 2
\* most <tr> rows in the table of a proxy-source page
MaxRows == 3
\* most get_proxy calls made on a directly built rotator
MaxDraws == 4
\* longest keywords string
MaxKeywordsLen == 3
\* longest keywords list
MaxKeywords == 2
\* most outermost <div> elements of a page that is parsed on its own
MaxDivs == 2
\* longest --proxies value of a command line
MaxProxiesLen == 2

(***************************************************************************)
(* Program constants.                                                      *)
(***************************************************************************)
\* ProxyRotator.__init__: get_proxies_retries: int = 5
DefaultGetProxiesRetries == 5
\* proxy_response.status_code == 200
HTTP_OK == 200

\* ProxyRotator.__init__: default_proxy_protocol: str = "http"
default_proxy_protocol == <<"h", "t", "t", "p">>
\* the separator looked for, and inserted, by the normalisation
SchemeSep == <<":", "/", "/">>
\* parse_search_results: github_base_url = "https://github.com"
github_base_url ==
    <<"h", "t", "t", "p", "s", ":", "/", "/",
      "g", "i", "t", "h", "u", "b", ".", "c", "o", "m">>

(***************************************************************************)
(* Strings.                                                                *)
(***************************************************************************)
\* sub in s
Contains(s, sub) ==
    \E i \in 1..(Len(s) + 1) :
        /\ i + Len(sub) - 1 <= Len(s)
        /\ SubSeq(s, i, i + Len(sub) - 1) = sub

IsSpace(c) == c = " "

RECURSIVE LStrip(_)
LStrip(s) ==
    IF s # <<>> /\ IsSpace(Head(s)) THEN LStrip(Tail(s)) ELSE s

RECURSIVE RStrip(_)
RStrip(s) ==
    IF s # <<>> /\ IsSpace(s[Len(s)]) THEN RStrip(SubSeq(s, 1, Len(s) - 1)) ELSE s

\* str.strip()
Strip(s) == RStrip(LStrip(s))

\* all sequences over S of length at most n
SeqsUpTo(S, n) == UNION {[1..k -> S] : k \in 0..n}

\* Shuffles that draws every position anew from the list (random.choices)
ShufflesWithReplacement(s) == [1..Len(s) -> {s[k] : k \in 1..Len(s)}]

\* the orders random.shuffle can leave a list in
Shuffles(s) ==
    LET n == Len(s)
        Bij == {f \in [1..n -> 1..n] : \A i, j \in 1..n : f[i] = f[j] => i = j}
    IN  {[i \in 1..n |-> s[f[i]]] : f \in Bij}

(***************************************************************************)
(* Inputs.                                                                 *)
(***************************************************************************)
\* proxy addresses a caller may pass: without a scheme, and with one
ProxyAddrs ==
    { <<"a">>,
      <<"b">>,
      <<"s", ":", "/", "/", "c">> }

\* the proxies argument: None, or a list
NoProxies == [none |-> TRUE, list |-> <<>>]
ProxiesArgs ==
    {NoProxies} \cup {[none |-> FALSE, list |-> l] : l \in SeqsUpTo(ProxyAddrs, MaxProxies)}

\* Python truthiness of the proxies argument
Truthy(p) == ~p.none /\ p.list # <<>>

\* rows of the proxy table: the cell texts of its <td> elements
HeaderRow == <<>>
Row1 == << <<"1">>, <<"8">> >>
Row2 == << <<" ", "2", " ">>, <<"9", " ">>, <<"x">> >>
ShortRow == << <<"3">> >>
DataRows == {Row1, Row2}
Rows == {HeaderRow, ShortRow} \cup DataRows

\* a fetched page of the proxy source: no matching table, or its rows
NoTable == [found |-> FALSE, rows |-> <<>>]
Tables ==
    {NoTable} \cup {[found |-> TRUE, rows |-> r] : r \in SeqsUpTo(Rows, MaxRows)}

\* status codes of the proxy source other than 200
OtherStatus == {404, 503}

VARIABLES
    entry,                \* "search": GitHub_Crawler.search; "rotator": ProxyRotator used directly
    pc,                   \* position of the caller
    proxies_arg,          \* the proxies argument
    retries,              \* search's retries argument
    get_proxies_retries,  \* self.get_proxies_retries
    i,                    \* get_proxy_list: the loop index
    source_requests,      \* requests.get(source) calls made
    source_failed,        \* of these, how many raised
    source_ok,            \* of these, how many returned status 200
    page,                 \* the table of the 200 response
    ip_list,              \* what get_proxy_list returned
    acquired,             \* whether get_proxy_list returned
    proxies,              \* self.proxies
    queue,                \* self.queue
    proxy,                \* what the last get_proxy call returned
    draws,                \* get_proxy calls made
    drawn,                \* the addresses these calls returned, in order
    refills,              \* of these, how many found the queue empty
    iter,                 \* search: the loop index
    attempts,             \* make_request calls made, with the proxy of each
    inflight,             \* make_request calls that have not returned or raised
    returned,             \* the bodies of the make_request calls that returned
    results,              \* search's results
    printed,              \* whether the "No urls found" line was printed
    err,                  \* the exception that left the last call, or "none"
    cleared,              \* whether a caller emptied self.queue by hand
    unit_pc,              \* position of a caller of one function, or "idle"
    keywords,             \* search's keywords argument
    type,                 \* search's type argument
    url,                  \* the url search builds
    document,             \* parse_search_results's argument
    url_list,             \* what parse_search_results returned
    args,                 \* run_crawler: the parsed command line
    exit_code,            \* run_crawler: the exit code, or -1 while it runs
    main_call,            \* run_crawler: the arguments main was called with
    calls                 \* two search calls on one crawler, each with its locals

vars ==
    <<entry, pc, proxies_arg, retries, get_proxies_retries, i, source_requests,
      source_failed, source_ok, page, ip_list, acquired, proxies, queue, proxy,
      draws, drawn, refills, iter, attempts, inflight, returned, results,
      printed, err, cleared, unit_pc, keywords, type, url, document,
      url_list, args, exit_code, main_call, calls>>

\* the exceptions
AcquisitionError == "Couldn't get proxies list."
EmptyPoolError == "IndexError: pop from empty list"
NoError == "none"


(***************************************************************************)
(* Pages the search endpoint may answer with.  A page is the sequence of   *)
(* its outermost <div> elements, each with the <a> elements directly       *)
(* inside it followed by the <div> elements nested in it; accepted is      *)
(* FALSE for markup that html.parser rejects (BeautifulSoup then raises    *)
(* ParserRejectedMarkup).                                                  *)
(***************************************************************************)
NoHref == [present |-> FALSE, value |-> <<>>]
Href(v) == [present |-> TRUE, value |-> v]
Anchor(link, href) == [link |-> link, href |-> href]
Div(title, anchors) == [title |-> title, anchors |-> anchors, inner |-> <<>>]
Nest(title, anchors, inner) == [title |-> title, anchors |-> anchors, inner |-> inner]

\* two results
PageResults ==
    [accepted |-> TRUE,
     divs |-> << Div(TRUE, << Anchor(TRUE, Href(<<"/", "x">>)) >>),
                 Div(TRUE, << Anchor(TRUE, Href(<<"/", "y">>)) >>) >>]
\* no search-title container
PageNoTitle ==
    [accepted |-> TRUE,
     divs |-> << Div(FALSE, << Anchor(TRUE, Href(<<"/", "z">>)) >>) >>]
\* a container whose anchors give no result
PageNoHref ==
    [accepted |-> TRUE,
     divs |-> << Div(TRUE, << Anchor(TRUE, NoHref),
                              Anchor(TRUE, Href(<<>>)),
                              Anchor(FALSE, Href(<<"/", "w">>)) >>) >>]
\* markup the parser rejects
PageRejected == [accepted |-> FALSE, divs |-> <<>>]

Pages == {PageResults, PageNoTitle, PageNoHref, PageRejected}

\* what makes make_request raise: a transport error, or raise_for_status
RequestFailures == {"transport", "status"}

(***************************************************************************)
(* ProxyRotator.                                                           *)
(***************************************************************************)
\* Normalise that prepends the protocol to every proxy
NormaliseAlwaysPrepends(l) ==
    [k \in 1..Len(l) |-> default_proxy_protocol \o SchemeSep \o l[k]]

\* __init__: add the protocol to the proxies that have none
Normalise(l) ==
    [k \in 1..Len(l) |->
        IF ~Contains(l[k], SchemeSep)
        THEN default_proxy_protocol \o SchemeSep \o l[k]
        ELSE l[k]]

\* TableRaises that also rejects a table without data rows
TableRaisesOnEmpty(t) ==
    \/ ~t.found
    \/ Len(t.rows) < 2
    \/ \E k \in 2..Len(t.rows) : Len(t.rows[k]) < 2

\* get_proxy_list: whether reading the table raises (no table: AttributeError
\* on None; a row after the first with fewer than two <td>: IndexError)
TableRaises(t) ==
    \/ ~t.found
    \/ \E k \in 2..Len(t.rows) : Len(t.rows[k]) < 2

\* IpList with the rows taken last to first
IpListReversed(t) ==
    [k \in 1..(Len(t.rows) - 1) |->
        Strip(t.rows[Len(t.rows) + 1 - k][1]) \o <<":">>
            \o Strip(t.rows[Len(t.rows) + 1 - k][2])]

\* get_proxy_list: the ip:port of every row after the first
IpList(t) ==
    [k \in 1..(Len(t.rows) - 1) |->
        Strip(t.rows[k + 1][1]) \o <<":">> \o Strip(t.rows[k + 1][2])]

\* GetProxyOutcomes without a queue: any address of the pool (random.choice)
GetProxyRandomChoice(pool, q) ==
    IF pool = <<>>
    THEN {[ok |-> FALSE, queue |-> <<>>, proxy |-> <<>>]}
    ELSE {[ok |-> TRUE, queue |-> q, proxy |-> pool[k]] : k \in 1..Len(pool)}

\* GetProxyOutcomes without the refill: pop from the queue as it is
GetProxyNoRefill(pool, q) ==
    {IF q = <<>>
     THEN [ok |-> FALSE, queue |-> <<>>, proxy |-> <<>>]
     ELSE [ok |-> TRUE, queue |-> SubSeq(q, 1, Len(q) - 1), proxy |-> q[Len(q)]]}

\* get_proxy: refill the empty queue with a shuffled copy of the pool, then
\* pop; the outcomes over the shuffles
GetProxyOutcomes(pool, q) ==
    LET filled == IF q = <<>> THEN Shuffles(pool) ELSE {q}
    IN  {IF f = <<>>
         THEN [ok |-> FALSE, queue |-> <<>>, proxy |-> <<>>]
         ELSE [ok |-> TRUE, queue |-> SubSeq(f, 1, Len(f) - 1), proxy |-> f[Len(f)]]
         : f \in filled}

(***************************************************************************)
(* GitHub_Crawler.                                                         *)
(***************************************************************************)
RECURSIVE Concat(_)
Concat(ss) == IF ss = <<>> THEN <<>> ELSE Head(ss) \o Concat(Tail(ss))

\* parse_search_results: BeautifulSoup(html, "html.parser") raises
ParseRaises(html) == ~html.accepted

IsTitle(d) == d.title
IsLink(a) == a.link
HasHref(a) == a.href.present /\ a.href.value # <<>>

\* find_all("div"): the divs of ds and those nested in them, in document order
RECURSIVE AllDivs(_)
AllDivs(ds) ==
    IF ds = <<>> THEN <<>>
    ELSE <<Head(ds)>> \o AllDivs(Head(ds).inner) \o AllDivs(Tail(ds))

\* search_div.find_all("a"): the anchors anywhere inside d, in document order
RECURSIVE AllAnchors(_)
AllAnchors(d) ==
    d.anchors \o Concat([k \in 1..Len(d.inner) |-> AllAnchors(d.inner[k])])

\* parse_search_results
parse_search_results(html) ==
    LET all_search_divs == SelectSeq(AllDivs(html.divs), IsTitle)
        all_a ==
            Concat([k \in 1..Len(all_search_divs) |->
                       SelectSeq(AllAnchors(all_search_divs[k]), IsLink)])
        kept == SelectSeq(all_a, HasHref)
    IN  IF all_a # <<>>
        THEN [k \in 1..Len(kept) |-> [url |-> github_base_url \o kept[k].href.value]]
        ELSE <<>>

(***************************************************************************)
(* The state machine: one call of GitHub_Crawler.search, or one            *)
(* ProxyRotator built and drawn from directly.                             *)
(***************************************************************************)
inputs == <<entry, proxies_arg, retries, get_proxies_retries>>
unitVars ==
    <<unit_pc, keywords, type, url, document, url_list, args, exit_code, main_call,
      calls>>
acqVars == <<i, source_requests, source_failed, source_ok, page, ip_list, acquired>>
drawVars == <<proxy, draws, drawn, refills>>
loopVars == <<iter, attempts, inflight, returned>>

\* the keywords argument: a string, or a list of strings
KeywordsStr(text) == [is_str |-> TRUE, text |-> text, list |-> <<>>]
KeywordsList(list) == [is_str |-> FALSE, text |-> <<>>, list |-> list]

\* no url is being built
KwIdle ==
    /\ keywords = KeywordsStr(<<>>)
    /\ type = "Repositories"
    /\ url = <<>>

\* nothing is being parsed
ParseIdle ==
    /\ document = PageNoTitle
    /\ url_list = <<>>

\* the parsed command line: --keywords, --type and, when given, --proxies
Args(k, t, given, p) == [keywords |-> k, type |-> t, given |-> given, proxies |-> p]
\* the arguments main passes to search
MainCall(k, t, p) == [keywords |-> k, type |-> t, proxies |-> p]
\* the process is still running
Running == -1

\* run_crawler is not running
CliIdle ==
    /\ args = Args(<<>>, "Repositories", FALSE, <<>>)
    /\ exit_code = Running
    /\ main_call = MainCall(<<>>, "Repositories", <<>>)

\* the state of one of two search calls: its arguments, its position, its
\* rotator's pool and queue, and what it has done so far
Call(p, r) ==
    [proxies_arg |-> p, retries |-> r, pc |-> "construct", proxies |-> <<>>,
     queue |-> <<>>, proxy |-> <<>>, iter |-> 0, attempts |-> <<>>,
     returned |-> <<>>, results |-> <<>>]

\* no two calls are running side by side
TwoIdle == calls = <<>>

\* no single function is being called
UnitIdle ==
    /\ unit_pc = "idle"
    /\ KwIdle
    /\ ParseIdle
    /\ CliIdle
    /\ TwoIdle

Init ==
    /\ entry \in {"search", "rotator"}
    /\ proxies_arg \in ProxiesArgs
    /\ retries \in (IF entry = "search" THEN 0..MaxRetries ELSE {0})
    /\ get_proxies_retries \in
           (IF entry = "search"
            THEN {DefaultGetProxiesRetries}
            ELSE 0..MaxGetProxiesRetries)
    /\ pc = "construct"
    /\ i = 0
    /\ source_requests = 0
    /\ source_failed = 0
    /\ source_ok = 0
    /\ page = NoTable
    /\ ip_list = <<>>
    /\ acquired = FALSE
    /\ proxies = <<>>
    /\ queue = <<>>
    /\ proxy = <<>>
    /\ draws = 0
    /\ drawn = <<>>
    /\ refills = 0
    /\ iter = 0
    /\ attempts = <<>>
    /\ inflight = 0
    /\ returned = <<>>
    /\ results = <<>>
    /\ printed = FALSE
    /\ err = NoError
    /\ cleared = FALSE
    /\ UnitIdle

\* Return that never prints the "No urls found" line
ReturnNeverPrints(res) ==
    /\ pc' = "done"
    /\ results' = res
    /\ printed' = FALSE

\* search, lines 226-227: print the "No urls found" line if not results; return
Return(res) ==
    /\ pc' = "done"
    /\ results' = res
    /\ printed' = (res = <<>>)

\* Continue with one iteration too many (range(retries + 1))
ContinueOffByOne ==
    /\ iter' = iter + 1
    /\ IF iter + 1 <= retries
       THEN pc' = "draw" /\ UNCHANGED <<results, printed>>
       ELSE Return(results)

\* Continue that blocks between two iterations (say, a wait without a timeout)
ContinueBlocks ==
    /\ iter' = iter + 1
    /\ IF iter + 1 < retries
       THEN pc' = "blocked" /\ UNCHANGED <<results, printed>>
       ELSE Return(results)

\* search, lines 223-224 and 215: the except clause; the next iteration, or
\* after the last one the return
Continue ==
    /\ iter' = iter + 1
    /\ IF iter + 1 < retries
       THEN pc' = "draw" /\ UNCHANGED <<results, printed>>
       ELSE Return(results)

\* search, lines 214-215: results = []; enter the loop, or fall through it
EnterLoop ==
    IF retries > 0
    THEN pc' = "draw" /\ UNCHANGED <<results, printed>>
    ELSE Return(<<>>)

\* __init__, lines 45-52: copy and normalise the list, empty the queue; the
\* constructor returns to search or to the direct caller
Built(list) ==
    /\ proxies' = Normalise(list)
    /\ queue' = <<>>
    /\ IF entry = "search"
       THEN EnterLoop
       ELSE pc' = "ready" /\ UNCHANGED <<results, printed>>

\* Construct that ignores the proxies argument and always fetches the list
ConstructAlwaysAcquires ==
    /\ pc = "construct"
    /\ IF get_proxies_retries = 0
       THEN /\ acquired' = TRUE
            /\ ip_list' = <<>>
            /\ Built(<<>>)
            /\ UNCHANGED <<i, source_requests, source_failed, source_ok, page>>
       ELSE /\ pc' = "acquire"
            /\ UNCHANGED <<acqVars, proxies, queue, results, printed>>
    /\ UNCHANGED <<inputs, cleared, unitVars, drawVars, loopVars, err>>

\* search line 212 / __init__ lines 42-44: a truthy proxies argument seeds
\* the rotator; otherwise get_proxy_list starts (and returns [] at once when
\* get_proxies_retries is 0)
Construct ==
    /\ pc = "construct"
    /\ IF Truthy(proxies_arg)
       THEN /\ Built(proxies_arg.list)
            /\ UNCHANGED acqVars
       ELSE IF get_proxies_retries = 0
       THEN /\ acquired' = TRUE
            /\ ip_list' = <<>>
            /\ Built(<<>>)
            /\ UNCHANGED <<i, source_requests, source_failed, source_ok, page>>
       ELSE /\ pc' = "acquire"
            /\ UNCHANGED <<acqVars, proxies, queue, results, printed>>
    /\ UNCHANGED <<inputs, cleared, unitVars, drawVars, loopVars, err>>

\* AcquireRaises with the exception swallowed and the fetch retried, as a
\* non-200 response is
AcquireRaisesRetried ==
    /\ pc = "acquire"
    /\ source_requests' = source_requests + 1
    /\ source_failed' = source_failed + 1
    /\ i' = i + 1
    /\ IF i + 1 < get_proxies_retries
       THEN /\ pc' = "acquire"
            /\ UNCHANGED <<ip_list, acquired, proxies, queue, results, printed>>
       ELSE /\ acquired' = TRUE
            /\ ip_list' = <<>>
            /\ Built(<<>>)
    /\ UNCHANGED <<inputs, cleared, unitVars, source_ok, page, drawVars, loopVars, err>>

\* get_proxy_list, lines 69 and 91-92: requests.get(source) raises
AcquireRaises ==
    /\ pc = "acquire"
    /\ source_requests' = source_requests + 1
    /\ source_failed' = source_failed + 1
    /\ err' = AcquisitionError
    /\ pc' = "raised"
    /\ UNCHANGED <<inputs, cleared, unitVars, i, source_ok, page, ip_list, acquired, proxies, queue,
                   drawVars, loopVars, results, printed>>

\* AcquireNon200 that raises once the retries are used up instead of
\* returning []
AcquireNon200FailsAtEnd ==
    /\ pc = "acquire"
    /\ \E status \in OtherStatus \cup {HTTP_OK} :
        /\ status # HTTP_OK
        /\ source_requests' = source_requests + 1
        /\ i' = i + 1
        /\ IF i + 1 < get_proxies_retries
           THEN pc' = "acquire" /\ UNCHANGED err
           ELSE pc' = "raised" /\ err' = AcquisitionError
    /\ UNCHANGED <<inputs, cleared, unitVars, source_failed, source_ok, page, ip_list, acquired,
                   proxies, queue, drawVars, loopVars, results, printed>>

\* get_proxy_list, lines 69-70 and 86-90: a status other than 200; the next
\* iteration, or after the last one lines 94-100 return []
AcquireNon200 ==
    /\ pc = "acquire"
    /\ \E status \in OtherStatus \cup {HTTP_OK} :
        /\ status # HTTP_OK
        /\ source_requests' = source_requests + 1
        /\ i' = i + 1
        /\ IF i + 1 < get_proxies_retries
           THEN /\ pc' = "acquire"
                /\ UNCHANGED <<ip_list, acquired, proxies, queue, results, printed>>
           ELSE /\ acquired' = TRUE
                /\ ip_list' = <<>>
                /\ Built(<<>>)
    /\ UNCHANGED <<inputs, cleared, unitVars, source_failed, source_ok, page, drawVars, loopVars, err>>

\* get_proxy_list, lines 69-85 and 94-100: status 200; read the table and
\* break, or raise from inside the try
Acquire200 ==
    /\ pc = "acquire"
    /\ \E t \in Tables :
        /\ source_requests' = source_requests + 1
        /\ source_ok' = source_ok + 1
        /\ page' = t
        /\ IF TableRaises(t)
           THEN /\ err' = AcquisitionError
                /\ pc' = "raised"
                /\ UNCHANGED <<ip_list, acquired, proxies, queue, results, printed>>
           ELSE /\ acquired' = TRUE
                /\ ip_list' = IpList(t)
                /\ Built(IpList(t))
                /\ UNCHANGED err
    /\ UNCHANGED <<inputs, cleared, unitVars, i, source_failed, drawVars, loopVars>>

\* GetProxy with the queue refilled by reference (self.queue = self.proxies):
\* the shuffle and the pop then act on the pool too
GetProxyAliasesPool ==
    /\ pc = "ready"
    /\ draws < MaxDraws
    /\ \E o \in GetProxyOutcomes(proxies, queue) :
        /\ queue' = o.queue
        /\ proxies' = o.queue
        /\ proxy' = (IF o.ok THEN o.proxy ELSE proxy)
        /\ drawn' = (IF o.ok THEN Append(drawn, o.proxy) ELSE drawn)
        /\ err' = (IF o.ok THEN NoError ELSE EmptyPoolError)
    /\ draws' = draws + 1
    /\ refills' = refills + (IF queue = <<>> THEN 1 ELSE 0)
    /\ UNCHANGED <<inputs, cleared, unitVars, acqVars, loopVars, results, printed, pc>>

\* get_proxy, called on a rotator built directly
GetProxy ==
    /\ pc = "ready"
    /\ draws < MaxDraws
    /\ \E o \in GetProxyOutcomes(proxies, queue) :
        /\ queue' = o.queue
        /\ proxy' = (IF o.ok THEN o.proxy ELSE proxy)
        /\ drawn' = (IF o.ok THEN Append(drawn, o.proxy) ELSE drawn)
        /\ err' = (IF o.ok THEN NoError ELSE EmptyPoolError)
    /\ draws' = draws + 1
    /\ refills' = refills + (IF queue = <<>> THEN 1 ELSE 0)
    /\ UNCHANGED <<inputs, cleared, unitVars, acqVars, proxies, loopVars, results, printed, pc>>

\* tests, test_proxy_rotator_queue_refill: rotator.queue = []
ClearQueue ==
    /\ pc = "ready"
    /\ queue # <<>>
    /\ queue' = <<>>
    /\ cleared' = TRUE
    /\ UNCHANGED <<inputs, unitVars, acqVars, proxies, drawVars, loopVars, results, printed,
                   pc, err>>

\* SearchDraw with get_proxy called inside the try: its failure is caught
\* like that of a fetch
SearchDrawInsideTry ==
    /\ pc = "draw"
    /\ \E o \in GetProxyOutcomes(proxies, queue) :
        /\ queue' = o.queue
        /\ IF o.ok
           THEN /\ proxy' = o.proxy
                /\ drawn' = Append(drawn, o.proxy)
                /\ pc' = "request"
                /\ UNCHANGED <<iter, results, printed>>
           ELSE /\ Continue
                /\ UNCHANGED <<proxy, drawn>>
    /\ draws' = draws + 1
    /\ refills' = refills + (IF queue = <<>> THEN 1 ELSE 0)
    /\ UNCHANGED <<inputs, cleared, unitVars, acqVars, proxies, attempts, inflight, returned, err>>

\* search, line 216: proxy = proxy_rotator.get_proxy(), outside the try
SearchDraw ==
    /\ pc = "draw"
    /\ \E o \in GetProxyOutcomes(proxies, queue) :
        /\ queue' = o.queue
        /\ IF o.ok
           THEN /\ proxy' = o.proxy
                /\ drawn' = Append(drawn, o.proxy)
                /\ pc' = "request"
                /\ UNCHANGED err
           ELSE /\ err' = EmptyPoolError
                /\ pc' = "raised"
                /\ UNCHANGED <<proxy, drawn>>
    /\ draws' = draws + 1
    /\ refills' = refills + (IF queue = <<>> THEN 1 ELSE 0)
    /\ UNCHANGED <<inputs, cleared, unitVars, acqVars, proxies, loopVars, results, printed>>

\* search, line 220: make_request(url, headers, proxy, timeout) is called
SearchRequest ==
    /\ pc = "request"
    /\ attempts' = Append(attempts, proxy)
    /\ inflight' = inflight + 1
    /\ pc' = "await"
    /\ UNCHANGED <<inputs, cleared, unitVars, acqVars, proxies, queue, drawVars, iter, returned,
                   results, printed, err>>

\* RequestRaises without the except clause: the exception leaves search
RequestRaisesEscapes ==
    /\ pc = "await"
    /\ \E failure \in RequestFailures :
        /\ inflight' = inflight - 1
        /\ err' = failure
        /\ pc' = "raised"
    /\ UNCHANGED <<inputs, cleared, unitVars, acqVars, proxies, queue, drawVars, iter, attempts,
                   returned, results, printed>>

\* make_request raises (lines 153-157)
RequestRaises ==
    /\ pc = "await"
    /\ \E failure \in RequestFailures :
        /\ inflight' = inflight - 1
        /\ Continue
    /\ UNCHANGED <<inputs, cleared, unitVars, acqVars, proxies, queue, drawVars, attempts, returned, err>>

\* make_request returns response.text (line 154); search lines 221-222 parse
\* it and break, inside the try
RequestReturns ==
    /\ pc = "await"
    /\ \E html_response \in Pages :
        /\ inflight' = inflight - 1
        /\ returned' = Append(returned, html_response)
        /\ IF ParseRaises(html_response)
           THEN Continue
           ELSE Return(parse_search_results(html_response)) /\ UNCHANGED iter
    /\ UNCHANGED <<inputs, cleared, unitVars, acqVars, proxies, queue, drawVars, attempts, err>>

Next ==
    \/ Construct
    \/ AcquireRaises
    \/ AcquireNon200
    \/ Acquire200
    \/ GetProxy
    \/ ClearQueue
    \/ SearchDraw
    \/ SearchRequest
    \/ RequestRaises
    \/ RequestReturns

Spec == Init /\ [][Next]_vars

\* The interpreter keeps running the call, and every request it waits for
\* completes or raises: a step that can be taken is taken.
FairSpec == Spec /\ WF_vars(Next)

(***************************************************************************)
(* The properties.                                                         *)
(***************************************************************************)
Range(s) == {s[k] : k \in 1..Len(s)}

\* the rotator's constructor has returned
Constructed == pc \notin {"construct", "acquire"} /\ err # AcquisitionError

\* an address as it is expected in the pool: with a scheme
WithScheme(p) ==
    IF Contains(p, SchemeSep) THEN p ELSE default_proxy_protocol \o SchemeSep \o p

\* a proxy-source page whose table cannot be read: no table, or a row after
\* the first with fewer than two cells
Unreadable(t) ==
    \/ ~t.found
    \/ \E k \in 1..Len(t.rows) : k > 1 /\ Len(t.rows[k]) < 2

\* C1 (fail-soft retries): in a search call with retries >= 1 and a non-empty
\* supplied proxy list in which every fetch attempt so far has raised, no
\* exception has left search; the call has returned exactly when retries
\* attempts have been made and have raised, and it returned the empty list.
C1_FailSoftRetries ==
    (entry = "search" /\ retries >= 1 /\ Truthy(proxies_arg) /\ returned = <<>>) =>
        /\ pc # "raised"
        /\ err = NoError
        /\ (pc = "done" => Len(attempts) = retries /\ results = <<>>)
        /\ (Len(attempts) = retries /\ inflight = 0 => pc = "done")

C1_Witness ==
    /\ entry = "search"
    /\ retries = 3
    /\ Truthy(proxies_arg)
    /\ returned = <<>>
    /\ pc = "done"
    /\ Len(attempts) = 3
    /\ results = <<>>

\* C2 (first-success short-circuit), as claimed: once a fetch attempt of a
\* search call has returned without raising, the call has returned, that
\* fetch was its only successful one and its last attempt, and the results
\* are the parse of that response.
C2_FirstSuccessShortCircuit ==
    (entry = "search" /\ returned # <<>>) =>
        /\ pc = "done"
        /\ Len(returned) = 1
        /\ results = parse_search_results(returned[1])

\* C3 (bounded attempts): in every state of a search call at most retries
\* fetch attempts have been made; the attempts used, in order, the addresses
\* drawn, one draw each, with one more address drawn than attempts made only
\* between a draw and its fetch; and a fetch is in flight only while search
\* waits for it, one at a time.
C3_BoundedAttempts ==
    entry = "search" =>
        /\ Len(attempts) <= retries
        /\ Len(drawn) = Len(attempts) + (IF pc = "request" THEN 1 ELSE 0)
        /\ attempts = SubSeq(drawn, 1, Len(attempts))
        /\ draws = Len(drawn) + (IF err = EmptyPoolError THEN 1 ELSE 0)
        /\ inflight = (IF pc = "await" THEN 1 ELSE 0)

C3_Witness ==
    /\ entry = "search"
    /\ retries = 3
    /\ pc = "await"
    /\ Len(attempts) = 3
    /\ draws = 3
    /\ inflight = 1

\* C4 (empty pool is fatal): a search call with retries >= 1 whose rotator
\* was built with an empty pool makes no fetch attempt and does not return a
\* list: its first draw fails and the failure leaves search.
C4_EmptyPoolFatal ==
    (entry = "search" /\ retries >= 1 /\ Constructed /\ proxies = <<>>) =>
        /\ pc \in {"draw", "raised"}
        /\ attempts = <<>>
        /\ ~printed
        /\ (pc = "draw" => draws = 0)
        /\ (pc = "raised" => err = EmptyPoolError /\ draws = 1)

C4_Witness ==
    /\ entry = "search"
    /\ retries >= 1
    /\ acquired
    /\ proxies = <<>>
    /\ pc = "raised"
    /\ err = EmptyPoolError
    /\ attempts = <<>>

\* C5 (get_proxy fails iff the pool is empty): on a rotator with a non-empty
\* pool every get_proxy call made so far returned an address of the pool and
\* none failed; on a rotator with an empty pool every call failed with the
\* empty-pool error and none returned an address.
C5_GetProxyFailsIffEmpty ==
    Constructed =>
        IF proxies # <<>>
        THEN /\ Len(drawn) = draws
             /\ err # EmptyPoolError
             /\ \A k \in 1..Len(drawn) : drawn[k] \in Range(proxies)
        ELSE /\ drawn = <<>>
             /\ (draws > 0 => err = EmptyPoolError)

C5_Witness ==
    /\ entry = "rotator"
    /\ Len(proxies) = 2
    /\ draws = 4
    /\ Len(drawn) = 4
    /\ refills = 3

\* C6 (acquisition transport failures are not retried): once a fetch of the
\* proxy source has raised, it is the only one that did and the last request
\* made, whatever is left of get_proxies_retries; the acquisition error has
\* left the constructor, which built no pool, and nothing was drawn or
\* fetched.
C6_TransportFailureNotRetried ==
    source_failed > 0 =>
        /\ source_failed = 1
        /\ source_requests = i + 1
        /\ pc = "raised"
        /\ err = AcquisitionError
        /\ ~acquired
        /\ proxies = <<>>
        /\ draws = 0
        /\ attempts = <<>>

C6_Witness ==
    /\ entry = "rotator"
    /\ get_proxies_retries = 2
    /\ source_failed = 1
    /\ source_requests = 1
    /\ pc = "raised"
    /\ err = AcquisitionError

\* C7 (only non-200 responses): while every fetch of the proxy source made
\* by an acquisition has answered with a status other than 200, each has
\* used one unit of get_proxies_retries; the acquisition goes on while units
\* are left, and with none left it has returned the empty list without
\* failing and the rotator holds an empty pool.
C7_AllNon200ReturnsEmpty ==
    (~Truthy(proxies_arg) /\ pc # "construct" /\ source_ok = 0 /\ source_failed = 0) =>
        /\ source_requests = i
        /\ i <= get_proxies_retries
        /\ (i < get_proxies_retries => pc = "acquire" /\ ~acquired)
        /\ (i = get_proxies_retries =>
                /\ acquired
                /\ ip_list = <<>>
                /\ Constructed
                /\ proxies = <<>>)

C7_Witness ==
    /\ entry = "rotator"
    /\ get_proxies_retries = 2
    /\ source_requests = 2
    /\ source_ok = 0
    /\ acquired
    /\ pc = "ready"
    /\ proxies = <<>>

\* C8, as claimed: a rotator built without an explicit list is never
\* constructed unless the source returned a list (a 200 response was read).
C8_ConstructionNeedsUsableList ==
    (~Truthy(proxies_arg) /\ Constructed) => source_ok >= 1

\* C8, amended: construction without an explicit list fails with the
\* acquisition error exactly when an attempt raises (the fetch itself, or the
\* reading of a 200 response whose table is missing or has a short row), and
\* then no pool is built; when every attempt is answered with a status other
\* than 200 the constructor returns, holding an empty pool.
C8_ConstructionFailsOnlyOnRaise ==
    ~Truthy(proxies_arg) =>
        /\ err = AcquisitionError <=>
               (source_failed > 0 \/ (source_ok > 0 /\ Unreadable(page)))
        /\ (err = AcquisitionError => pc = "raised" /\ ~acquired /\ proxies = <<>>)
        /\ (pc \notin {"construct", "acquire"} /\ source_failed = 0 /\ source_ok = 0) =>
               /\ Constructed
               /\ source_requests = get_proxies_retries
               /\ proxies = <<>>

C8_Witness ==
    /\ entry = "search"
    /\ ~Truthy(proxies_arg)
    /\ source_requests = DefaultGetProxiesRetries
    /\ source_ok = 0
    /\ source_failed = 0
    /\ Constructed
    /\ proxies = <<>>

\* C9 (acquisition stops at the first 200): at most get_proxies_retries
\* fetches of the source are made; at most one answers 200 and it is the last
\* one made; and a list returned after a 200 response holds, in row order,
\* the stripped first cell, ":" and the stripped second cell of every row of
\* that response after the first (a list returned without one is empty).
C9_AcquisitionStopsAtFirst200 ==
    /\ source_requests <= get_proxies_retries
    /\ source_ok <= 1
    /\ (source_ok = 1 => pc # "acquire" /\ source_requests = i + 1)
    /\ (acquired /\ source_ok = 0 => ip_list = <<>>)
    /\ (acquired /\ source_ok = 1 =>
            /\ page.found
            /\ Len(ip_list) = (IF page.rows = <<>> THEN 0 ELSE Len(page.rows) - 1)
            /\ \A k \in 1..Len(ip_list) :
                   ip_list[k] =
                       Strip(page.rows[k + 1][1]) \o <<":">> \o Strip(page.rows[k + 1][2]))

C9_Witness ==
    /\ acquired
    /\ source_ok = 1
    /\ i >= 1
    /\ Len(ip_list) = 2
    /\ ip_list[1] # ip_list[2]

\* C10 (rotator seeding in search): a search call given a non-empty proxies
\* list makes no request to the proxy source and passes to its fetch attempts
\* only addresses of that list, with a scheme; given no list or an empty one
\* its rotator is built by remote acquisition, and it passes to its fetch
\* attempts only addresses of the acquired list, with a scheme.
C10_RotatorSeeding ==
    entry = "search" =>
        IF Truthy(proxies_arg)
        THEN /\ source_requests = 0
             /\ ~acquired
             /\ \A k \in 1..Len(attempts) :
                    attempts[k] \in {WithScheme(p) : p \in Range(proxies_arg.list)}
        ELSE /\ (Constructed => acquired /\ source_requests >= 1)
             /\ \A k \in 1..Len(attempts) :
                    attempts[k] \in {WithScheme(p) : p \in Range(ip_list)}

C10_Witness ==
    /\ entry = "search"
    /\ proxies_arg = [none |-> FALSE, list |-> << <<"a">>, <<"s", ":", "/", "/", "c">> >>]
    /\ Len(attempts) = 2
    /\ attempts[1] # attempts[2]
    /\ source_requests = 0

\* the list the rotator was built from: the supplied one, or the acquired one
SourceList == IF Truthy(proxies_arg) THEN proxies_arg.list ELSE ip_list

\* C11 (scheme normalisation): once the rotator is constructed, and in every
\* state after that, its pool has the length and order of the list it was
\* built from, every address of the pool carries a scheme, an address given
\* with a scheme is stored unchanged and one given without is stored as
\* default scheme + "://" + address.
C11_SchemeNormalisation ==
    Constructed =>
        /\ Len(proxies) = Len(SourceList)
        /\ \A k \in 1..Len(proxies) :
            /\ Contains(proxies[k], SchemeSep)
            /\ (Contains(SourceList[k], SchemeSep) => proxies[k] = SourceList[k])
            /\ (~Contains(SourceList[k], SchemeSep) =>
                    proxies[k] = default_proxy_protocol \o SchemeSep \o SourceList[k])

C11_Witness ==
    /\ entry = "rotator"
    /\ pc = "ready"
    /\ proxies_arg.list = << <<"s", ":", "/", "/", "c">>, <<"b">> >>
    /\ proxies = << <<"s", ":", "/", "/", "c">>,
                    <<"h", "t", "t", "p", ":", "/", "/", "b">> >>
    /\ draws = 3

\* C12 (pool immutability): no step taken after the rotator is constructed,
\* a get_proxy call with or without a refill and a failing call on an empty
\* pool included, changes the pool or the list the caller supplied.
C12_PoolImmutable ==
    [][(Constructed /\ Constructed') =>
           (proxies' = proxies /\ proxies_arg' = proxies_arg)]_vars

C12_Witness ==
    /\ entry = "rotator"
    /\ Len(proxies) = 2
    /\ proxies[1] # proxies[2]
    /\ draws = 3
    /\ refills = 2
    /\ Len(queue) = 1

\* C13 (zero-result log line): a search call that has returned has printed
\* the "No urls found" line exactly if the list it returned is empty, be it
\* after a fetch that succeeded without matches or after attempts that all
\* failed; a call that has not returned has not printed it.
C13_ZeroResultLine ==
    entry = "search" =>
        /\ (pc = "done" => (printed <=> results = <<>>))
        /\ (pc # "done" => ~printed)

C13_Witness ==
    /\ entry = "search"
    /\ pc = "done"
    /\ Len(attempts) = 2
    /\ returned = <<PageNoTitle>>
    /\ results = <<>>
    /\ printed

\* how often x occurs in s
Count(s, x) == Cardinality({k \in 1..Len(s) : s[k] = x})

\* s and t hold the same entries, each as often
SameBag(s, t) ==
    /\ Len(s) = Len(t)
    /\ \A x \in Range(s) \cup Range(t) : Count(s, x) = Count(t, x)

\* C17 (round-robin rounds): on a rotator with a pool of n >= 1 addresses
\* whose queue only get_proxy has touched, the d draws made so far took
\* ceil(d / n) refills (one at each draw that found the queue empty, which
\* is each draw after a multiple of n draws); every complete block of n
\* draws holds every pool entry as often as the pool does; and after a draw
\* the queue and the draws of the current round together make up the pool.
C17_RoundRobinRounds ==
    (Constructed /\ ~cleared /\ proxies # <<>>) =>
        LET n == Len(proxies)
            d == Len(drawn)
            start == ((d - 1) \div n) * n + 1
        IN  /\ refills = (d + n - 1) \div n
            /\ (queue = <<>> <=> d % n = 0)
            /\ \A b \in 0..((d \div n) - 1) :
                   SameBag(SubSeq(drawn, b * n + 1, b * n + n), proxies)
            /\ (d > 0 => SameBag(queue \o SubSeq(drawn, start, d), proxies))

C17_Witness ==
    /\ entry = "rotator"
    /\ ~cleared
    /\ Len(proxies) = 2
    /\ proxies[1] # proxies[2]
    /\ draws = 4
    /\ refills = 2
    /\ queue = <<>>

\* the entries of s are pairwise distinct
Distinct(s) == \A j, k \in 1..Len(s) : s[j] = s[k] => j = k

\* C18 (no proxy reused before the pool is exhausted): in a search call
\* whose pool holds n pairwise distinct addresses, the k-th fetch attempt
\* uses the proxy of an earlier attempt only if k > n; the first min(retries,
\* n) attempts use pairwise distinct proxies.
C18_NoEarlyReuse ==
    (entry = "search" /\ Distinct(proxies)) =>
        \A j, k \in 1..Len(attempts) :
            (j < k /\ attempts[j] = attempts[k]) => k > Len(proxies)

C18_Witness ==
    /\ entry = "search"
    /\ Len(proxies) = 2
    /\ Len(attempts) = 3
    /\ attempts[1] # attempts[2]
    /\ attempts[3] = attempts[1]

\* C20 (termination): under FairSpec every search call finishes - it returns
\* a list or raises - whatever its retries, whatever the acquisition and
\* fetch outcomes; and neither the retry loop nor the acquisition loop makes
\* more iterations than its bound.
C20_SearchTerminates ==
    /\ [](entry = "search" =>
             /\ iter <= retries
             /\ i <= get_proxies_retries
             /\ source_requests <= get_proxies_retries
             /\ Len(attempts) <= retries)
    /\ (entry = "search") ~> (entry = "search" /\ pc \in {"done", "raised"})

C20_Witness ==
    /\ entry = "search"
    /\ pc = "done"
    /\ ~Truthy(proxies_arg)
    /\ source_requests = DefaultGetProxiesRetries
    /\ source_ok = 1
    /\ retries = 3
    /\ Len(attempts) = 3
    /\ Len(returned) = 1

(***************************************************************************)
(* Single functions, each called on inputs drawn from a bounded set.       *)
(***************************************************************************)
mainVars ==
    <<inputs, acqVars, proxies, queue, drawVars, loopVars, results, printed, pc,
      err, cleared>>

\* neither search nor a rotator is running
MainIdle ==
    /\ entry = "none"
    /\ pc = "idle"
    /\ proxies_arg = NoProxies
    /\ retries = 0
    /\ get_proxies_retries = DefaultGetProxiesRetries
    /\ i = 0
    /\ source_requests = 0
    /\ source_failed = 0
    /\ source_ok = 0
    /\ page = NoTable
    /\ ip_list = <<>>
    /\ acquired = FALSE
    /\ proxies = <<>>
    /\ queue = <<>>
    /\ proxy = <<>>
    /\ draws = 0
    /\ drawn = <<>>
    /\ refills = 0
    /\ iter = 0
    /\ attempts = <<>>
    /\ inflight = 0
    /\ returned = <<>>
    /\ results = <<>>
    /\ printed = FALSE
    /\ err = NoError
    /\ cleared = FALSE

(***************************************************************************)
(* search, lines 204-210: the url.                                         *)
(***************************************************************************)
\* the characters keywords are made of
KeywordChars == {"a", "b", " "}
\* the entries of a keywords list
KeywordTokens == { <<>>, <<"a">>, <<" ", "b", " ">>, <<" ">> }

KeywordsArgs ==
    {KeywordsStr(t) : t \in SeqsUpTo(KeywordChars, MaxKeywordsLen)}
        \cup {KeywordsList(l) : l \in SeqsUpTo(KeywordTokens, MaxKeywords)}

\* GitHub_Search_Type
SearchTypes == {"Repositories", "Issues", "Wikis"}

\* type.name
TypeName(t) ==
    CASE t = "Repositories" ->
             <<"R", "e", "p", "o", "s", "i", "t", "o", "r", "i", "e", "s">>
      [] t = "Issues" -> <<"I", "s", "s", "u", "e", "s">>
      [] t = "Wikis" -> <<"W", "i", "k", "i", "s">>

\* str.lower(), on the letters type names are made of
LowerChar(c) ==
    CASE c = "R" -> "r"
      [] c = "I" -> "i"
      [] c = "W" -> "w"
      [] OTHER -> c
Lower(s) == [k \in 1..Len(s) |-> LowerChar(s[k])]

\* the first word of a string that starts with none of its separators
RECURSIVE FirstWord(_)
FirstWord(s) ==
    IF s = <<>> \/ IsSpace(Head(s)) THEN <<>> ELSE <<Head(s)>> \o FirstWord(Tail(s))

\* str.split(): the words between runs of whitespace
RECURSIVE Split(_)
Split(s) ==
    LET t == LStrip(s)
        w == FirstWord(t)
    IN  IF t = <<>> THEN <<>> ELSE <<w>> \o Split(SubSeq(t, Len(w) + 1, Len(t)))

\* "+".join(keywords)
RECURSIVE Join(_)
Join(l) ==
    IF l = <<>> THEN <<>>
    ELSE IF Len(l) = 1 THEN l[1]
    ELSE l[1] \o <<"+">> \o Join(Tail(l))

\* search, lines 204-207: split a string; strip every entry
Tokens(kw) ==
    LET l == IF kw.is_str THEN Split(kw.text) ELSE kw.list
    IN  [k \in 1..Len(l) |-> Strip(l[k])]

\* "https://github.com/search?q="
SearchEndpoint ==
    <<"h", "t", "t", "p", "s", ":", "/", "/",
      "g", "i", "t", "h", "u", "b", ".", "c", "o", "m",
      "/", "s", "e", "a", "r", "c", "h">>
QueryParam == <<"?", "q", "=">>
TypeParam == <<"&", "t", "y", "p", "e", "=">>

\* search, lines 209-210
SearchUrl(kw, t) ==
    SearchEndpoint \o QueryParam \o Join(Tokens(kw)) \o TypeParam \o Lower(TypeName(t))

InitUrl ==
    /\ MainIdle
    /\ unit_pc = "search"
    /\ keywords \in KeywordsArgs
    /\ type \in SearchTypes
    /\ url = <<>>
    /\ ParseIdle
    /\ CliIdle
    /\ TwoIdle

\* search, lines 204-210
BuildUrl ==
    /\ unit_pc = "search"
    /\ url' = SearchUrl(keywords, type)
    /\ unit_pc' = "url built"
    /\ UNCHANGED <<mainVars, keywords, type, document, url_list, args, exit_code,
                   main_call, calls>>

NextUrl == BuildUrl

SpecUrl == InitUrl /\ [][NextUrl]_vars

\* the tokens of a keywords argument: the whitespace-delimited words of a
\* string, the entries of a list; trimmed, the empty ones left out
TrimmedNonEmpty(l) ==
    LET NonEmpty(t) == t # <<>>
    IN  SelectSeq([k \in 1..Len(l) |-> Strip(l[k])], NonEmpty)

ExpectedFragment(kw) ==
    Join(TrimmedNonEmpty(IF kw.is_str THEN Split(kw.text) ELSE kw.list))

\* C14 (keyword normalisation and url), as claimed: for every keywords
\* argument, a string or a list (empty and whitespace-only entries included),
\* the url built is <search endpoint>?q=<fragment>&type=<lowercase type name>
\* where the fragment is the "+"-join of the trimmed, non-empty tokens in
\* order.
C14_UrlFromTrimmedNonEmptyTokens ==
    unit_pc = "url built" =>
        url = SearchEndpoint \o QueryParam \o ExpectedFragment(keywords)
                  \o TypeParam \o Lower(TypeName(type))

(***************************************************************************)
(* parse_search_results, called on its own.                                *)
(***************************************************************************)
\* the anchors directly inside a div
AnchorLists ==
    { <<>>,
      << Anchor(TRUE, Href(<<"/", "x">>)) >>,
      << Anchor(TRUE, NoHref), Anchor(TRUE, Href(<<>>)), Anchor(FALSE, Href(<<"/", "w">>)) >> }
InnerAnchorLists == { <<>>, << Anchor(TRUE, Href(<<"/", "y">>)) >> }

\* divs without a div inside, and divs with at most one
InnerDivs == {Div(t, a) : t \in BOOLEAN, a \in InnerAnchorLists}
OuterDivs ==
    {Nest(t, a, n) : t \in BOOLEAN, a \in AnchorLists, n \in SeqsUpTo(InnerDivs, 1)}

Documents ==
    {PageRejected} \cup {[accepted |-> TRUE, divs |-> ds] : ds \in SeqsUpTo(OuterDivs, MaxDivs)}

InitParse ==
    /\ MainIdle
    /\ unit_pc = "parse"
    /\ document \in Documents
    /\ url_list = <<>>
    /\ KwIdle
    /\ CliIdle
    /\ TwoIdle

\* parse_search_results(html) returns
ParseReturns ==
    /\ unit_pc = "parse"
    /\ ~ParseRaises(document)
    /\ url_list' = parse_search_results(document)
    /\ unit_pc' = "parsed"
    /\ UNCHANGED <<mainVars, keywords, type, url, document, args, exit_code,
                   main_call, calls>>

\* parse_search_results(html) raises at line 168
ParseFails ==
    /\ unit_pc = "parse"
    /\ ParseRaises(document)
    /\ unit_pc' = "parse raised"
    /\ UNCHANGED <<mainVars, keywords, type, url, document, url_list, args,
                   exit_code, main_call, calls>>

NextParse ==
    \/ ParseReturns
    \/ ParseFails

SpecParse == InitParse /\ [][NextParse]_vars

\* the anchors of the divs ds, in document order, that lie inside a
\* search-title container (inside tells whether ds themselves do)
RECURSIVE AnchorsInTitle(_, _)
AnchorsInTitle(ds, inside) ==
    IF ds = <<>> THEN <<>>
    ELSE LET d == Head(ds)
             in == inside \/ d.title
         IN  (IF in THEN d.anchors ELSE <<>>)
                 \o AnchorsInTitle(d.inner, in)
                 \o AnchorsInTitle(Tail(ds), inside)

\* one result for every such anchor of the link class with a non-empty href
ExpectedResults(doc) ==
    LET Emits(a) == a.link /\ a.href.present /\ a.href.value # <<>>
        as == SelectSeq(AnchorsInTitle(doc.divs, FALSE), Emits)
    IN  [k \in 1..Len(as) |-> [url |-> github_base_url \o as[k].href.value]]

\* C15 (parsing contract), as claimed: parse_search_results returns exactly
\* one result for every anchor of the link class that lies inside a
\* search-title container and has a non-empty href, in document order, with
\* url = base url + href, and nothing else.
C15_OneResultPerAnchor ==
    unit_pc = "parsed" => url_list = ExpectedResults(document)

(***************************************************************************)
(* run_crawler.py, from the parsed command line to the call of search.     *)
(***************************************************************************)
Comma == ","

\* str.split(sep): the pieces between the separators, empty ones included
RECURSIVE SplitOn(_, _)
SplitOn(s, sep) ==
    IF \A k \in 1..Len(s) : s[k] # sep
    THEN <<s>>
    ELSE LET k == CHOOSE j \in 1..Len(s) :
                      s[j] = sep /\ \A h \in 1..(j - 1) : s[h] # sep
         IN  <<SubSeq(s, 1, k - 1)>> \o SplitOn(SubSeq(s, k + 1, Len(s)), sep)

\* what parse_args may return: --keywords and --type are required,
\* --proxies is not (args.proxies is None when it is left out)
CliKeywordChars == {"a", Comma, " "}
CliProxyChars == {"p", Comma}
CliArgs ==
    {Args(k, t, FALSE, <<>>) :
        k \in SeqsUpTo(CliKeywordChars, MaxKeywordsLen), t \in SearchTypes}
      \cup
    {Args(k, t, TRUE, p) :
        k \in SeqsUpTo(CliKeywordChars, MaxKeywordsLen), t \in SearchTypes,
        p \in SeqsUpTo(CliProxyChars, MaxProxiesLen)}

InitCli ==
    /\ MainIdle
    /\ unit_pc = "cli"
    /\ args \in CliArgs
    /\ exit_code = Running
    /\ main_call = MainCall(<<>>, "Repositories", <<>>)
    /\ KwIdle
    /\ ParseIdle
    /\ TwoIdle

\* lines 56-58 without an exception, then line 64
CliSplit ==
    /\ unit_pc = "cli"
    /\ args.given
    /\ main_call' = MainCall(SplitOn(args.keywords, Comma), args.type,
                             SplitOn(args.proxies, Comma))
    /\ unit_pc' = "main"
    /\ UNCHANGED <<mainVars, keywords, type, url, document, url_list, args,
                   exit_code, calls>>

\* line 58 raises AttributeError on None; lines 59-61
CliSplitRaises ==
    /\ unit_pc = "cli"
    /\ ~args.given
    /\ exit_code' = 1
    /\ unit_pc' = "exited"
    /\ UNCHANGED <<mainVars, keywords, type, url, document, url_list, args,
                   main_call, calls>>

\* line 66 and main up to the call of search at line 25
CliMain ==
    /\ unit_pc = "main"
    /\ unit_pc' = "search called"
    /\ UNCHANGED <<mainVars, keywords, type, url, document, url_list, args,
                   exit_code, main_call, calls>>

NextCli ==
    \/ CliSplit
    \/ CliSplitRaises
    \/ CliMain

SpecCli == InitCli /\ [][NextCli]_vars

\* C16 (--proxies is optional), as claimed: a command line with keywords and
\* a valid type but without --proxies does not exit with a non-zero code
\* while its arguments are split, and goes on to main and the search call
\* with no proxies.
WellFormed(k) ==
    LET ks == SplitOn(k, Comma) IN \A j \in 1..Len(ks) : Strip(ks[j]) # <<>>
C16_ProxiesFlagOptional ==
    (~args.given /\ WellFormed(args.keywords) /\ unit_pc # "cli") =>
        /\ exit_code = Running
        /\ unit_pc \in {"main", "search called"}
        /\ main_call.proxies = <<>>

(***************************************************************************)
(* Two search calls side by side, one after the other or interleaved.      *)
(* search keeps everything in locals (GitHub_Crawler has no fields), so    *)
(* each call has its own record.  Both are given proxies.                  *)
(***************************************************************************)
Callers == {1, 2}
TwoProxiesArgs == { << <<"a">> >>, << <<"a">>, <<"s", ":", "/", "/", "c">> >> }
TwoRetries == {0, 1, 2}
TwoPages == {PageResults, PageRejected}

InitTwo ==
    /\ MainIdle
    /\ unit_pc = "two"
    /\ \E p1, p2 \in TwoProxiesArgs, r1, r2 \in TwoRetries :
           calls = <<Call(p1, r1), Call(p2, r2)>>
    /\ KwIdle
    /\ ParseIdle
    /\ CliIdle

twoUnchanged ==
    <<mainVars, unit_pc, keywords, type, url, document, url_list, args, exit_code,
      main_call>>

\* search, lines 223-224 and 215, for call c in state st
TwoContinue(c, st) ==
    calls' = [calls EXCEPT ![c] =
                 [st EXCEPT !.iter = st.iter + 1,
                            !.pc = IF st.iter + 1 < st.retries THEN "draw" ELSE "done"]]

\* search, lines 212-215: the call builds its rotator and enters the loop
TwoConstruct(c) ==
    /\ calls[c].pc = "construct"
    /\ calls' = [calls EXCEPT ![c] =
                    [calls[c] EXCEPT !.proxies = Normalise(calls[c].proxies_arg),
                                     !.queue = <<>>,
                                     !.pc = IF calls[c].retries > 0 THEN "draw" ELSE "done"]]
    /\ UNCHANGED twoUnchanged

\* search, line 216
TwoDraw(c) ==
    /\ calls[c].pc = "draw"
    /\ \E o \in GetProxyOutcomes(calls[c].proxies, calls[c].queue) :
           calls' = [calls EXCEPT ![c] =
                        [calls[c] EXCEPT !.queue = o.queue,
                                         !.proxy = o.proxy,
                                         !.pc = IF o.ok THEN "request" ELSE "raised"]]
    /\ UNCHANGED twoUnchanged

\* search, line 220
TwoRequest(c) ==
    /\ calls[c].pc = "request"
    /\ calls' = [calls EXCEPT ![c] =
                    [calls[c] EXCEPT !.attempts = Append(calls[c].attempts, calls[c].proxy),
                                     !.pc = "await"]]
    /\ UNCHANGED twoUnchanged

\* make_request raises
TwoRequestRaises(c) ==
    /\ calls[c].pc = "await"
    /\ TwoContinue(c, calls[c])
    /\ UNCHANGED twoUnchanged

\* make_request returns; lines 221-222 inside the try
TwoRequestReturns(c) ==
    /\ calls[c].pc = "await"
    /\ \E html_response \in TwoPages :
           LET st == [calls[c] EXCEPT !.returned = Append(calls[c].returned, html_response)]
           IN  IF ParseRaises(html_response)
               THEN TwoContinue(c, st)
               ELSE calls' = [calls EXCEPT ![c] =
                                 [st EXCEPT !.results = parse_search_results(html_response),
                                            !.pc = "done"]]
    /\ UNCHANGED twoUnchanged

NextTwo ==
    \/ \E c \in Callers : TwoConstruct(c)
    \/ \E c \in Callers : TwoDraw(c)
    \/ \E c \in Callers : TwoRequest(c)
    \/ \E c \in Callers : TwoRequestRaises(c)
    \/ \E c \in Callers : TwoRequestReturns(c)

SpecTwo == InitTwo /\ [][NextTwo]_vars

\* a step of one call leaves the pool and the queue of the other alone, and
\* a rotator starts with an empty queue
TwoIsolated ==
    \A c, d \in Callers :
        /\ (c # d /\ calls'[c] # calls[c]) =>
               /\ calls'[d].queue = calls[d].queue
               /\ calls'[d].proxies = calls[d].proxies
        /\ (calls[c].pc = "construct" /\ calls'[c].pc # "construct") =>
               calls'[c].queue = <<>>
        /\ calls'[c].proxies_arg = calls[c].proxies_arg

\* at most retries fetch attempts in call c
TwoBounded(c) == Len(calls[c].attempts) <= calls[c].retries

\* first success wins in call c
TwoFirstSuccess(c) ==
    calls[c].returned # <<>> =>
        /\ calls[c].pc = "done"
        /\ Len(calls[c].returned) = 1
        /\ calls[c].results = parse_search_results(calls[c].returned[1])

\* C19 (per-call isolation), as claimed: each of two search calls, however
\* they are interleaved, has its own rotator that starts with an empty
\* queue; a step of one call never changes the queue or the pool of the
\* other; and each call makes at most retries attempts and stops at its
\* first fetch that returns without raising.
C19_PerCallIsolation ==
    [][/\ TwoIsolated
       /\ \A c \in Callers : TwoBounded(c)' /\ TwoFirstSuccess(c)']_vars

============================================================================
